---- MODULE Spec2Model ----
(***************************************************************************)
(* Model of ger-morph-pw-gen: the GermanMorphDict loader / record parser,  *)
(* its filter operations, and the PasswordGenerator.                       *)
(*                                                                         *)
(* Text is a sequence of one-character strings.  A byte of the stream is a *)
(* pair <<c, k>>: the k-th UTF-8 byte of character c.                      *)
(***************************************************************************)
EXTENDS Integers, Sequences, FiniteSets, TLC

VARIABLES
    text,          \* the lexicon text handed to the constructor (dictData)
    path,          \* "string": dictData is a string; "stream": a Response;
                   \* "bodiless": a Response whose body is null
    pc,            \* "new" | "loading" | "ready" | "failed"  (state of this.initialized)
    constructed,   \* how the constructor call ended: "none" (not called) | "returned"
    readFailure,   \* history: the value reader.read() rejected with
    gateError,     \* message of the error this.initialized rejected with
    pos,           \* number of bytes of the body the reader has delivered
    pending,       \* bytes the TextDecoder holds back (incomplete character)
    buffer,        \* loadDictFromResponse: let buffer
    dictionary,    \* this.dictionary, a Map in insertion order: sequence of [word, entries]
    totalEntries,  \* this.totalEntries
    totalBytes,    \* loadDictFromResponse: content-length header (0 when absent)
    loadedBytes,   \* loadDictFromResponse: let loadedBytes
    loadProgress,  \* summary of the reports the loading progressCallback received
    forwarded,     \* history: header words handed to processChunk with isLastChunk = false
    handed,        \* history: the lines processChunk has split off its chunks, in order
    regexLastIndex,\* lastIndex of the caller's RegExp object
    call,          \* the last read operation that returned, with what it returned
    generated,     \* the outcome of the last generatePassword call
    batch          \* the generatePasswords call in progress, or its outcome

loaderVars == <<text, path, pc, constructed, readFailure, gateError, pos, pending,
                buffer, dictionary, totalEntries, totalBytes, loadedBytes, loadProgress,
                forwarded, handed>>

readerVars == <<regexLastIndex, call>>

generatorVars == <<generated, batch>>

vars == <<loaderVars, readerVars, generatorVars>>

(***************************************************************************)
(* Bounds                                                                  *)
(***************************************************************************)
MaxLines == 3

MaxStreamLines == 4

MaxRecords == 4

MaxCount == 2

MaxStrongCount == 1

MaxBatches == 2

(***************************************************************************)
(* String primitives (String.prototype.split / trim / includes / slice)    *)
(***************************************************************************)
NL == "\n"

Whitespace == {" ", "\t", "\r", "\n"}

SetMin(S) == CHOOSE x \in S : \A y \in S : x <= y

SetMax(S) == CHOOSE x \in S : \A y \in S : y <= x

Includes(s, c) == \E i \in 1..Len(s) : s[i] = c

IndexOf(s, c) == SetMin({i \in 1..Len(s) : s[i] = c})

LastIndexOf(s, c) == SetMax({i \in 1..Len(s) : s[i] = c})

Range(seq) == {seq[i] : i \in 1..Len(seq)}

RECURSIVE Split(_, _)
Split(s, sep) ==
    IF Includes(s, sep)
    THEN <<SubSeq(s, 1, IndexOf(s, sep) - 1)>>
             \o Split(SubSeq(s, IndexOf(s, sep) + 1, Len(s)), sep)
    ELSE <<s>>

Trim(s) ==
    LET keep == {i \in 1..Len(s) : s[i] \notin Whitespace}
    IN  IF keep = {} THEN <<>> ELSE SubSeq(s, SetMin(keep), SetMax(keep))

RECURSIVE Join(_, _)
Join(ls, sep) ==
    IF ls = <<>> THEN <<>>
    ELSE IF Len(ls) = 1 THEN ls[1]
    ELSE ls[1] \o <<sep>> \o Join(Tail(ls), sep)

(***************************************************************************)
(* WordCategory                                                            *)
(***************************************************************************)
WordCategory ==
    { <<"V">>, <<"A","D","J">>, <<"A","D","V">>, <<"A","R","T">>,
      <<"C","A","R","D">>, <<"C","I","R","C","P">>, <<"C","O","N","J">>,
      <<"D","E","M","O">>, <<"I","N","D","E","F">>, <<"I","N","T","J">>,
      <<"O","R","D">>, <<"N","N">>, <<"N","N","P">>, <<"P","O","S","S">>,
      <<"P","O","S","T","P">>, <<"P","R","P">>, <<"P","R","E","P">>,
      <<"P","R","E","P","A","R","T">>, <<"P","R","O","A","D","V">>,
      <<"P","R","T","K","L">>, <<"R","E","L">>, <<"T","R","U","N","C">>,
      <<"V","P","A","R","T">>, <<"W","P","A","D","V">>, <<"W","P","R","O">>,
      <<"Z","U">> }

(***************************************************************************)
(* Record parser                                                           *)
(***************************************************************************)
EmptyIndex == [dictionary |-> <<>>, totalEntries |-> 0]

Keys(dict) == {dict[i].word : i \in 1..Len(dict)}

\* Variant of MapSet: the value of an existing key is extended by the new one.
MapSetAppending(dict, word, entries) ==
    IF word \in {dict[i].word : i \in 1..Len(dict)}
    THEN [i \in 1..Len(dict) |->
             IF dict[i].word = word
             THEN [word |-> word, entries |-> dict[i].entries \o entries]
             ELSE dict[i]]
    ELSE Append(dict, [word |-> word, entries |-> entries])

\* Map.prototype.set: an existing key keeps its place and gets the new value.
MapSet(dict, word, entries) ==
    IF word \in Keys(dict)
    THEN [i \in 1..Len(dict) |->
             IF dict[i].word = word THEN [word |-> word, entries |-> entries]
             ELSE dict[i]]
    ELSE Append(dict, [word |-> word, entries |-> entries])

\* Variant of AddCurrentWordToDictionary: a word is committed whether or not
\* it has analyses.
AddCurrentWordToDictionaryUnchecked(index, currentWord, currentAnalyses) ==
    IF currentWord # <<>>
    THEN LET entries == [i \in 1..Len(currentAnalyses) |->
                            [word |-> currentWord, analysis |-> currentAnalyses[i]]]
         IN  [dictionary |-> MapSet(index.dictionary, currentWord, entries),
              totalEntries |-> index.totalEntries + Len(entries)]
    ELSE index

\* A null currentWord is the empty sequence: the guard treats null and "" alike,
\* and a header line is never empty after trim.
AddCurrentWordToDictionary(index, currentWord, currentAnalyses) ==
    IF currentWord # <<>> /\ Len(currentAnalyses) > 0
    THEN LET entries == [i \in 1..Len(currentAnalyses) |->
                            [word |-> currentWord, analysis |-> currentAnalyses[i]]]
         IN  [dictionary |-> MapSet(index.dictionary, currentWord, entries),
              totalEntries |-> index.totalEntries + Len(entries)]
    ELSE index

\* Variant of ParseAnalysis: the category is not checked against WordCategory.
ParseAnalysisAnyCategory(trimmedLine) ==
    LET parts == Split(trimmedLine, " ")
    IN  IF Len(parts) < 2 THEN <<>>
        ELSE IF parts[1] = <<>> THEN <<>>
        ELSE IF parts[2] = <<>> THEN <<>>
        ELSE LET analysisParts == Split(parts[2], ",")
             IN  << [lemma |-> parts[1],
                     category |-> analysisParts[1],
                     attributes |-> Tail(analysisParts)] >>

\* The analysis an analysis line yields, as a sequence of zero or one analyses.
ParseAnalysis(trimmedLine) ==
    LET parts == Split(trimmedLine, " ")
    IN  IF Len(parts) < 2 THEN <<>>
        ELSE IF parts[1] = <<>> THEN <<>>
        ELSE IF parts[2] = <<>> THEN <<>>
        ELSE LET analysisParts == Split(parts[2], ",")
             IN  IF analysisParts[1] \notin WordCategory THEN <<>>
                 ELSE << [lemma |-> parts[1],
                          category |-> analysisParts[1],
                          attributes |-> Tail(analysisParts)] >>

\* Variant of ProcessLine: a header starts the next record without committing
\* the record before it.
ProcessLineNoFlush(st, line) ==
    LET trimmedLine == Trim(line)
    IN  IF trimmedLine = <<>> THEN st
        ELSE IF ~Includes(trimmedLine, ",")
        THEN [index |-> st.index, currentWord |-> trimmedLine, currentAnalyses |-> <<>>]
        ELSE [st EXCEPT !.currentAnalyses = @ \o ParseAnalysis(trimmedLine)]

\* Variant of ProcessLine: a blank line ends the record in progress.
ProcessLineBlankEndsRecord(st, line) ==
    LET trimmedLine == Trim(line)
    IN  IF trimmedLine = <<>>
        THEN [index |-> AddCurrentWordToDictionary(st.index, st.currentWord,
                                                   st.currentAnalyses),
              currentWord |-> <<>>,
              currentAnalyses |-> <<>>]
        ELSE IF ~Includes(trimmedLine, ",")
        THEN [index |-> AddCurrentWordToDictionary(st.index, st.currentWord,
                                                   st.currentAnalyses),
              currentWord |-> trimmedLine,
              currentAnalyses |-> <<>>]
        ELSE [st EXCEPT !.currentAnalyses = @ \o ParseAnalysis(trimmedLine)]

\* One iteration of the for loop over the lines of a chunk.
\* st = [index, currentWord, currentAnalyses]
ProcessLine(st, line) ==
    LET trimmedLine == Trim(line)
    IN  IF trimmedLine = <<>> THEN st
        ELSE IF ~Includes(trimmedLine, ",")
        THEN [index |-> AddCurrentWordToDictionary(st.index, st.currentWord,
                                                   st.currentAnalyses),
              currentWord |-> trimmedLine,
              currentAnalyses |-> <<>>]
        ELSE [st EXCEPT !.currentAnalyses = @ \o ParseAnalysis(trimmedLine)]

RECURSIVE ProcessLines(_, _)
ProcessLines(st, lines) ==
    IF lines = <<>> THEN st
    ELSE ProcessLines(ProcessLine(st, Head(lines)), Tail(lines))

\* currentWord and currentAnalyses are locals of each call.
ProcessChunk(index, chunk, isLastChunk) ==
    LET st == ProcessLines([index |-> index, currentWord |-> <<>>,
                            currentAnalyses |-> <<>>],
                           Split(chunk, NL))
    IN  IF isLastChunk
        THEN AddCurrentWordToDictionary(st.index, st.currentWord, st.currentAnalyses)
        ELSE st.index

\* The index loadDict builds from a string.
LoadDict(dictData) == ProcessChunk(EmptyIndex, dictData, TRUE)

\* Header words among the lines of a chunk.
HeaderWords(chunk) ==
    LET lines == Split(chunk, NL)
    IN  {Trim(lines[i]) : i \in {j \in 1..Len(lines) :
                                    Trim(lines[j]) # <<>> /\ ~Includes(Trim(lines[j]), ",")}}

(***************************************************************************)
(* Byte stream: TextEncoder / TextDecoder({stream: true})                  *)
(***************************************************************************)
TwoByteChars == {"ü", "ä", "ö", "Ä", "Ö", "Ü", "ß"}

Utf8Len(c) == IF c \in TwoByteChars THEN 2 ELSE 1

RECURSIVE Encode(_)
Encode(s) ==
    IF s = <<>> THEN <<>>
    ELSE [k \in 1..Utf8Len(Head(s)) |-> <<Head(s), k>>] \o Encode(Tail(s))

\* decoder.decode(value, {stream: true}): the characters completed by value, and
\* the bytes of an incomplete character, held for the next call.
RECURSIVE Decode(_, _)
Decode(held, value) ==
    IF value = <<>> THEN [out |-> <<>>, held |-> held]
    ELSE LET b == Head(value)
         IN  IF b[2] = Utf8Len(b[1])
             THEN LET rest == Decode(<<>>, Tail(value))
                  IN  [out |-> <<b[1]>> \o rest.out, held |-> rest.held]
             ELSE Decode(Append(held, b), Tail(value))

(***************************************************************************)
(* Progress sink of the loader                                             *)
(***************************************************************************)
\* A percentage is the fraction num / den (den > 0).
\* Of the reports made so far: whether there was one, the last percentage, and
\* whether each percentage was at least the one before it.
NoReports == [reported |-> FALSE, num |-> 0, den |-> 1, nonDecreasing |-> TRUE]

Report(p, num, den) ==
    [reported |-> TRUE, num |-> num, den |-> den,
     nonDecreasing |-> p.nonDecreasing /\ (~p.reported \/ p.num * den <= num * p.den)]

(***************************************************************************)
(* Inputs                                                                  *)
(***************************************************************************)
LinePool ==
    { <<>>,                                  \* blank line
      <<"T">>,                               \* word header
      <<"T", "s">>,                          \* another word header
      <<"t", " ", "V", ",", "m">>,           \* analysis line
      <<"t", " ", "N", "N", ",", "f">>,      \* analysis line, another category
      <<"t", " ", "Q", ",", "m">>,           \* category outside WordCategory
      <<"V", ",", "m">>,                     \* one field only
      <<"t", " ", "V", ",", "m", " ", "x">>  \* three fields
    }

\* The lines of the texts fed through the stream path, where every split into
\* chunks is explored.
StreamLinePool ==
    { <<>>, <<"T">>, <<"ü">>, <<"t", " ", "V", ",", "m">> }

RECURSIVE LineSeqs(_, _)
LineSeqs(pool, n) ==
    IF n = 0 THEN {<<>>}
    ELSE LET shorter == LineSeqs(pool, n - 1)
         IN  shorter \cup {Append(ls, l) : ls \in {x \in shorter : Len(x) = n - 1},
                                           l \in pool}

Texts == {Join(ls, NL) : ls \in LineSeqs(LinePool, MaxLines) \ {<<>>}}

StreamTexts == {Join(ls, NL) : ls \in LineSeqs(StreamLinePool, MaxStreamLines) \ {<<>>}}

\* content-length: absent (0), the true byte count, or a wrong one.
DeclaredTotals(body) == {0, Len(body), 1}

(***************************************************************************)
(* Loader                                                                  *)
(***************************************************************************)
Body == Encode(text)

\* What a failing read rejects with: an Error with a message, or a value that
\* is not an Error.
NoFailure == [isError |-> FALSE, message |-> "none"]

ReadFailures ==
    { [isError |-> TRUE, message |-> "network error"],
      [isError |-> FALSE, message |-> "aborted"] }

\* Variant of WrapLoadError: the cause's message is not carried over.
WrapLoadErrorWithoutCause(cause) == "Failed to load dictionary"

\* The message of the Error the catch block throws.
WrapLoadError(cause) ==
    "Failed to load dictionary: "
        \o (IF cause.isError THEN cause.message ELSE "Unknown error")

\* No read operation has returned yet.
NoRegex == [present |-> FALSE, source |-> "", global |-> FALSE]

NoCategories == [present |-> FALSE, values |-> {}]

NoCall == [op |-> "none", regex |-> NoRegex, categories |-> NoCategories,
           result |-> <<>>, readAt |-> "none", lastIndex |-> 0, error |-> "none",
           sink |-> FALSE, reports |-> <<>>]

NotGenerated == [status |-> "none", mode |-> "none", gender |-> <<>>, adj |-> <<>>,
                 noun |-> <<>>, password |-> <<>>, error |-> "none"]

NoBatch == [status |-> "none", mode |-> "none", count |-> 0, attempts |-> 0,
            passwords |-> <<>>, failed |-> FALSE, error |-> "none"]

\* A Response without a body carries no text.
InitWith(stringTexts, streamTexts) ==
    /\ \/ path = "string" /\ text \in stringTexts
       \/ path = "stream" /\ text \in streamTexts
       \/ path = "bodiless" /\ text = <<>> /\ streamTexts # {}
    /\ regexLastIndex = 0
    /\ call = NoCall
    /\ generated = NotGenerated
    /\ pc = "new"
    /\ constructed = "none"
    /\ readFailure = NoFailure
    /\ gateError = "none"
    /\ batch = NoBatch
    /\ pos = 0
    /\ pending = <<>>
    /\ buffer = <<>>
    /\ dictionary = <<>>
    /\ totalEntries = 0
    /\ totalBytes = 0
    /\ loadedBytes = 0
    /\ loadProgress = NoReports
    /\ forwarded = {}
    /\ handed = <<>>

\* new GermanMorphDict(dictData: string): loadDict runs to its end in the constructor.
ConstructFromText ==
    /\ pc = "new"
    /\ path = "string"
    /\ \E index \in {LoadDict(text)} :
          /\ dictionary' = index.dictionary
          /\ totalEntries' = index.totalEntries
    /\ loadProgress' = Report(loadProgress, 100, 1)
    /\ pc' = "ready"
    /\ constructed' = "returned"
    /\ handed' = Split(text, NL)
    /\ UNCHANGED <<text, path, readFailure, gateError, pos, pending, buffer, totalBytes,
                   loadedBytes, forwarded, readerVars, generatorVars>>

\* new GermanMorphDict(dictData: Response): loadDictFromResponse up to its first read().
ConstructFromResponse ==
    /\ pc = "new"
    /\ path = "stream"
    /\ \E declared \in DeclaredTotals(Body) : totalBytes' = declared
    /\ buffer' = <<>>
    /\ loadedBytes' = 0
    /\ pc' = "loading"
    /\ constructed' = "returned"
    /\ UNCHANGED <<text, path, readFailure, gateError, pos, pending, dictionary,
                   totalEntries, loadProgress, forwarded, handed, readerVars,
                   generatorVars>>

\* new GermanMorphDict(dictData: Response) when response.body is null: the throw
\* of loadDictFromResponse rejects this.initialized; the constructor returns.
ConstructFromResponseWithoutBody ==
    /\ pc = "new"
    /\ path = "bodiless"
    /\ pc' = "failed"
    /\ gateError' = "Response body is null"
    /\ constructed' = "returned"
    /\ UNCHANGED <<text, path, readFailure, pos, pending, buffer, dictionary, totalEntries,
                   totalBytes, loadedBytes, loadProgress, forwarded, handed, readerVars,
                   generatorVars>>

\* Variant of ReadChunk: what the buffer holds is forwarded with every chunk,
\* the text after the last newline included.
ReadChunkForwardingAll ==
    /\ pc = "loading"
    /\ \E n \in 1..(Len(Body) - pos) :
         LET value == SubSeq(Body, pos + 1, pos + n)
             dec == Decode(pending, value)
             buf == buffer \o dec.out
             index == [dictionary |-> dictionary, totalEntries |-> totalEntries]
             after == ProcessChunk(index, buf, FALSE)
         IN  /\ pos' = pos + n
             /\ loadedBytes' = loadedBytes + Len(value)
             /\ pending' = dec.held
             /\ buffer' = <<>>
             /\ dictionary' = after.dictionary
             /\ totalEntries' = after.totalEntries
             /\ forwarded' = forwarded \cup HeaderWords(buf)
             /\ handed' = handed \o Split(buf, NL)
             /\ loadProgress' = IF totalBytes > 0
                                THEN Report(loadProgress, loadedBytes' * 100, totalBytes)
                                ELSE loadProgress
    /\ UNCHANGED <<text, path, pc, constructed, readFailure, gateError, totalBytes,
                   readerVars, generatorVars>>

\* reader.read() gives {done: false, value}: value holds the next n bytes.
ReadChunk ==
    /\ pc = "loading"
    /\ \E body \in {Body} :
       \E n \in 1..(Len(body) - pos) :
       \E dec \in {Decode(pending, SubSeq(body, pos + 1, pos + n))} :
       \E buf \in {buffer \o dec.out} :
       \E lastNewline \in {IF Includes(buf, NL) THEN LastIndexOf(buf, NL) ELSE 0} :
       \E completeLines \in {SubSeq(buf, 1, lastNewline - 1)} :
         LET hasNewline == lastNewline > 0
             index == [dictionary |-> dictionary, totalEntries |-> totalEntries]
         IN  \E after \in {IF hasNewline THEN ProcessChunk(index, completeLines, FALSE)
                            ELSE index} :
             /\ pos' = pos + n
             /\ loadedBytes' = loadedBytes + n
             /\ pending' = dec.held
             /\ buffer' = IF hasNewline
                          THEN SubSeq(buf, lastNewline + 1, Len(buf))
                          ELSE buf
             /\ dictionary' = after.dictionary
             /\ totalEntries' = after.totalEntries
             /\ forwarded' = IF hasNewline THEN forwarded \cup HeaderWords(completeLines)
                             ELSE forwarded
             /\ handed' = IF hasNewline THEN handed \o Split(completeLines, NL)
                          ELSE handed
             /\ loadProgress' = IF totalBytes > 0
                                THEN Report(loadProgress, loadedBytes' * 100, totalBytes)
                                ELSE loadProgress
    /\ UNCHANGED <<text, path, pc, constructed, readFailure, gateError, totalBytes,
                   readerVars, generatorVars>>

\* reader.read() gives {done: true}.
ReadDone ==
    /\ pc = "loading"
    /\ pos = Len(Body)
    /\ \E index \in {ProcessChunk([dictionary |-> dictionary,
                                    totalEntries |-> totalEntries], buffer, TRUE)} :
          /\ dictionary' = index.dictionary
          /\ totalEntries' = index.totalEntries
    /\ loadProgress' = Report(loadProgress, 100, 1)
    /\ pc' = "ready"
    /\ handed' = handed \o Split(buffer, NL)
    /\ UNCHANGED <<text, path, constructed, readFailure, gateError, pos, pending, buffer,
                   totalBytes, loadedBytes, forwarded, readerVars, generatorVars>>

\* reader.read() rejects: the catch wraps the error and this.initialized rejects.
ReadError ==
    /\ pc = "loading"
    /\ \E cause \in ReadFailures :
         /\ readFailure' = cause
         /\ gateError' = WrapLoadError(cause)
    /\ pc' = "failed"
    /\ UNCHANGED <<text, path, constructed, pos, pending, buffer, dictionary, totalEntries,
                   totalBytes, loadedBytes, loadProgress, forwarded, handed, readerVars,
                   generatorVars>>

(***************************************************************************)
(* Filter Engine                                                           *)
(***************************************************************************)
\* RegExp.prototype.test for a pattern of one literal character.  Without the
\* g flag the search starts at 0 and lastIndex is left alone; with it the
\* search starts at lastIndex, which a match moves past the match and a
\* failure resets to 0.
RegExpTest(regex, lastIndex, word) ==
    LET start == IF regex.global THEN lastIndex ELSE 0
        hits == {i \in (start + 1)..Len(word) : word[i] = regex.source}
    IN  IF hits = {}
        THEN [matched |-> FALSE, lastIndex |-> IF regex.global THEN 0 ELSE lastIndex]
        ELSE [matched |-> TRUE,
              lastIndex |-> IF regex.global THEN SetMin(hits) ELSE lastIndex]

CategoryKept(categories, entry) ==
    ~categories.present \/ entry.analysis.category \in categories.values

\* The generator run to its end from the i-th word of the index: the entries
\* it yields and the lastIndex it leaves in the RegExp object.
RECURSIVE FilterFrom(_, _, _, _, _)
FilterFrom(dict, i, regex, lastIndex, categories) ==
    IF i > Len(dict) THEN [entries |-> <<>>, lastIndex |-> lastIndex]
    ELSE LET t == IF regex.present THEN RegExpTest(regex, lastIndex, dict[i].word)
                  ELSE [matched |-> TRUE, lastIndex |-> lastIndex]
             kept == IF t.matched
                     THEN SelectSeq(dict[i].entries,
                                    LAMBDA e : CategoryKept(categories, e))
                     ELSE <<>>
             rest == FilterFrom(dict, i + 1, regex, t.lastIndex, categories)
         IN  [entries |-> kept \o rest.entries, lastIndex |-> rest.lastIndex]

FilterWordsGenerator(dict, regex, lastIndex, categories) ==
    FilterFrom(dict, 1, regex, lastIndex, categories)

\* The patterns and category sets a caller passes.
Regexes ==
    { NoRegex,
      [present |-> TRUE, source |-> "T", global |-> FALSE],
      [present |-> TRUE, source |-> "T", global |-> TRUE],
      [present |-> TRUE, source |-> "x", global |-> FALSE] }

CategorySets ==
    { NoCategories,
      [present |-> TRUE, values |-> {<<"V">>}],
      [present |-> TRUE, values |-> {<<"N", "N">>}] }

\* filterWords: the entries the generator yields, pushed onto result one by
\* one: the k-th push puts the k-th yielded entry after what result holds.
Collect(result, yielded) ==
    [k \in 1..(Len(result) + Len(yielded)) |->
        IF k <= Len(result) THEN result[k] ELSE yielded[k - Len(result)]]

\* if (progressCallback && processedEntries % 1000 === 0)
ProgressEvery == 1000

\* The reports filterWords makes to its progressCallback: processedEntries is
\* k after the k-th entry is pushed, and a report follows when it is a
\* multiple of 1000; a last report follows the loop.  The percentage is
\* num / den.
FilterProgress(yielded, total) ==
    LET atEntry == [k \in 1..Len(yielded) |->
                       [processedEntries |-> k, totalEntries |-> total,
                        num |-> k * 100, den |-> total]]
    IN  SelectSeq(atEntry, LAMBDA r : r.processedEntries % ProgressEvery = 0)
          \o << [processedEntries |-> total, totalEntries |-> total,
                 num |-> 100, den |-> 1] >>

\* filterWords(regex, categories) past its await: the list it returns and the
\* lastIndex it leaves in the RegExp object.
FilterWords(dict, regex, lastIndex, categories) ==
    LET generator == FilterWordsGenerator(dict, regex, lastIndex, categories)
    IN  [entries |-> Collect(<<>>, generator.entries), lastIndex |-> generator.lastIndex]

\* Variant of GetDictionaryFrom: the first entry of each word only.
RECURSIVE GetDictionaryFirstEntries(_, _, _)
GetDictionaryFirstEntries(dict, i, result) ==
    IF i > Len(dict) THEN result
    ELSE GetDictionaryFirstEntries(dict, i + 1, Append(result, dict[i].entries[1]))

\* getDictionary past its await: result.push(...entries) for the values of the
\* Map from the i-th on.
RECURSIVE GetDictionaryFrom(_, _, _)
GetDictionaryFrom(dict, i, result) ==
    IF i > Len(dict) THEN result
    ELSE GetDictionaryFrom(dict, i + 1, result \o dict[i].entries)

GetDictionary(dict) == GetDictionaryFrom(dict, 1, <<>>)

\* The caller holds no result: its last call, if any, has been dealt with.
Idle == call = NoCall /\ generated = NotGenerated /\ batch = NoBatch

\* The caller is done with the value its last call returned (or the error it
\* threw) and goes on.
TakeResult ==
    /\ ~Idle
    /\ batch.status # "running"
    /\ call' = NoCall
    /\ generated' = NotGenerated
    /\ batch' = NoBatch
    /\ UNCHANGED <<loaderVars, regexLastIndex>>

Returned(op, regex, categories, run, readAt) ==
    /\ call' = [op |-> op, regex |-> regex, categories |-> categories,
                result |-> run.entries, readAt |-> readAt,
                lastIndex |-> regexLastIndex, error |-> "none",
                sink |-> FALSE, reports |-> <<>>]
    /\ regexLastIndex' = run.lastIndex

\* filterWords(regex, categories, progressCallback) returns: the list, and the
\* reports its progressCallback (if sink) received.
ReturnedEager(op, regex, categories, sink, run, readAt) ==
    /\ call' = [op |-> op, regex |-> regex, categories |-> categories,
                result |-> run.entries, readAt |-> readAt,
                lastIndex |-> regexLastIndex, error |-> "none",
                sink |-> sink,
                reports |-> IF sink THEN FilterProgress(run.entries, totalEntries)
                            ELSE <<>>]
    /\ regexLastIndex' = run.lastIndex

\* `await this.initialized` throws the error the gate rejected with: the
\* operation reads nothing.
Rejected(op, regex, categories) ==
    /\ call' = [op |-> op, regex |-> regex, categories |-> categories,
                result |-> <<>>, readAt |-> "never",
                lastIndex |-> regexLastIndex, error |-> gateError,
                sink |-> FALSE, reports |-> <<>>]
    /\ regexLastIndex' = regexLastIndex

\* The gate is settled: an `await this.initialized` goes on.
Settled == pc \in {"ready", "failed"}

\* filterWordsGenerator(regex, categories), consumed to its end by the caller.
\* It reads this.dictionary as it is; it does not await this.initialized.
CallFilterWordsGenerator ==
    /\ Idle
    /\ pc \in {"loading", "ready", "failed"}
    /\ \E regex \in Regexes, categories \in CategorySets :
         Returned("filterWordsGenerator", regex, categories,
                  FilterWordsGenerator(dictionary, regex, regexLastIndex, categories), pc)
    /\ UNCHANGED <<loaderVars, generatorVars>>

\* Variant of CallFilterWords: the call adds the entries it processed to
\* this.totalEntries.
CallFilterWordsCounting ==
    /\ Idle
    /\ Settled
    /\ \E regex \in Regexes, categories \in CategorySets :
         IF pc = "failed"
         THEN Rejected("filterWords", regex, categories) /\ totalEntries' = totalEntries
         ELSE LET run == FilterWords(dictionary, regex, regexLastIndex, categories)
              IN  /\ Returned("filterWords", regex, categories, run, pc)
                  /\ totalEntries' = totalEntries + Len(run.entries)
    /\ UNCHANGED <<text, path, pc, constructed, readFailure, gateError, pos, pending,
                   buffer, dictionary, totalBytes, loadedBytes, loadProgress, forwarded,
                   handed, generatorVars>>

\* filterWords(regex, categories), from `await this.initialized` on.
CallFilterWords ==
    /\ Idle
    /\ Settled
    /\ \E regex \in Regexes, categories \in CategorySets, sink \in BOOLEAN :
         IF pc = "failed" THEN Rejected("filterWords", regex, categories)
         ELSE ReturnedEager("filterWords", regex, categories, sink,
                            FilterWords(dictionary, regex, regexLastIndex, categories),
                            pc)
    /\ UNCHANGED <<loaderVars, generatorVars>>

\* Variant of CallCombineFilters: the progressCallback is not passed on.
CallCombineFiltersWithoutSink ==
    /\ Idle
    /\ Settled
    /\ \E regex \in Regexes, categories \in CategorySets, sink \in BOOLEAN :
         IF pc = "failed" THEN Rejected("combineFilters", regex, categories)
         ELSE LET run == FilterWords(dictionary, regex, regexLastIndex, categories)
              IN  /\ call' = [op |-> "combineFilters", regex |-> regex,
                              categories |-> categories, result |-> run.entries,
                              readAt |-> pc, lastIndex |-> regexLastIndex,
                              error |-> "none", sink |-> sink, reports |-> <<>>]
                  /\ regexLastIndex' = run.lastIndex
    /\ UNCHANGED <<loaderVars, generatorVars>>

\* combineFilters(regex, categories, progressCallback):
\* return this.filterWords(regex, categories, progressCallback).
CallCombineFilters ==
    /\ Idle
    /\ Settled
    /\ \E regex \in Regexes, categories \in CategorySets, sink \in BOOLEAN :
         IF pc = "failed" THEN Rejected("combineFilters", regex, categories)
         ELSE ReturnedEager("combineFilters", regex, categories, sink,
                            FilterWords(dictionary, regex, regexLastIndex, categories),
                            pc)
    /\ UNCHANGED <<loaderVars, generatorVars>>

\* getDictionary(), from `await this.initialized` on.
CallGetDictionary ==
    /\ Idle
    /\ Settled
    /\ IF pc = "failed" THEN Rejected("getDictionary", NoRegex, NoCategories)
       ELSE Returned("getDictionary", NoRegex, NoCategories,
                     [entries |-> GetDictionary(dictionary), lastIndex |-> regexLastIndex],
                     pc)
    /\ UNCHANGED <<loaderVars, generatorVars>>

\* waitForReady(): await this.initialized.
CallWaitForReady ==
    /\ Idle
    /\ Settled
    /\ IF pc = "failed" THEN Rejected("waitForReady", NoRegex, NoCategories)
       ELSE Returned("waitForReady", NoRegex, NoCategories,
                     [entries |-> <<>>, lastIndex |-> regexLastIndex], "never")
    /\ UNCHANGED <<loaderVars, generatorVars>>

(***************************************************************************)
(* Password Synthesizer                                                    *)
(***************************************************************************)
SIMPLE == "simple"

STRONG == "strong"

NOUN == <<"N", "N">>

ADJECTIVE == <<"A", "D", "J">>

Masc == <<"m", "a", "s", "c">>

Fem == <<"f", "e", "m">>

Neut == <<"n", "e", "u", "t">>

Nom == <<"n", "o", "m">>

Sing == <<"s", "i", "n", "g">>

Pos == <<"p", "o", "s">>

Strong == <<"s", "t", "r", "o", "n", "g">>

Genders == {Masc, Fem, Neut}

SPECIAL_CHAR_MAP ==
    [c \in {"S", "s", "I", "i", "T", "t"} |->
        IF c \in {"S", "s"} THEN "$" ELSE IF c \in {"I", "i"} THEN "!" ELSE "+"]

STRONG_MODE_FILTERED_CHARS ==
    {"Ä", "ä", "Ö", "ö", "Ü", "ü", "ẞ", "ß", "Y", "y", "Z", "z"}

DigitChars == {"0", "1", "2", "3", "4", "5", "6", "7", "8", "9"}

\* Array.prototype.includes on an attribute list.
HasAttribute(entry, a) ==
    \E i \in 1..Len(entry.analysis.attributes) : entry.analysis.attributes[i] = a

Comp == <<"c", "o", "m", "p">>

Plu == <<"p", "l", "u">>

Gen == <<"g", "e", "n">>

\* dict.filterWords(undefined, [category])
WordsOfCategory(dict, category) ==
    FilterWordsGenerator(dict, NoRegex, 0,
                         [present |-> TRUE, values |-> {category}]).entries

\* Variant of GetFilteredWords: strong declension is required of the adjectives
\* of every gender.
GetFilteredWordsAllStrong(dict) ==
    LET nomSingNouns ==
            SelectSeq(FilterWordsGenerator(dict, NoRegex, 0,
                          [present |-> TRUE, values |-> {NOUN}]).entries,
                      LAMBDA e : HasAttribute(e, Nom) /\ HasAttribute(e, Sing))
        baseFilteredAdj ==
            SelectSeq(FilterWordsGenerator(dict, NoRegex, 0,
                          [present |-> TRUE, values |-> {ADJECTIVE}]).entries,
                      LAMBDA e : HasAttribute(e, Pos) /\ HasAttribute(e, Nom)
                                 /\ HasAttribute(e, Sing))
    IN  [nounsByGender |->
            [g \in Genders |-> SelectSeq(nomSingNouns, LAMBDA n : HasAttribute(n, g))],
         adjByGender |->
            [g \in Genders |->
                SelectSeq(baseFilteredAdj,
                          LAMBDA a : HasAttribute(a, g) /\ HasAttribute(a, Strong))]]

GetFilteredWords(dict) ==
    LET nomSingNouns ==
            SelectSeq(WordsOfCategory(dict, NOUN),
                      LAMBDA e : HasAttribute(e, Nom) /\ HasAttribute(e, Sing))
        baseFilteredAdj ==
            SelectSeq(WordsOfCategory(dict, ADJECTIVE),
                      LAMBDA e : HasAttribute(e, Pos) /\ HasAttribute(e, Nom)
                                 /\ HasAttribute(e, Sing))
    IN  [nounsByGender |->
            [g \in Genders |-> SelectSeq(nomSingNouns, LAMBDA n : HasAttribute(n, g))],
         adjByGender |->
            [g \in Genders |->
                SelectSeq(baseFilteredAdj,
                          LAMBDA a : HasAttribute(a, g)
                                     /\ (g \in {Masc, Neut} => HasAttribute(a, Strong)))]]

\* Variant of FilterStrongWords: the filtered characters are not looked at.
FilterStrongWordsReplaceableOnly(words) ==
    SelectSeq(words,
              LAMBDA entry : \E c \in DOMAIN SPECIAL_CHAR_MAP : Includes(entry.word, c))

FilterStrongWords(words) ==
    SelectSeq(words,
              LAMBDA entry :
                  IF \E c \in STRONG_MODE_FILTERED_CHARS : Includes(entry.word, c)
                  THEN FALSE
                  ELSE \E c \in DOMAIN SPECIAL_CHAR_MAP : Includes(entry.word, c))

\* Variant of GetWordsByMode: the Strong filter is applied in every mode.
GetWordsByModeAlwaysStrong(words, mode) == FilterStrongWords(words)

GetWordsByMode(words, mode) ==
    IF mode = STRONG THEN FilterStrongWords(words) ELSE words

\* word.match(/[SsIiTt]/g): the eligible characters of the word, in order.
EligibleChars(word) == SelectSeq(word, LAMBDA c : c \in DOMAIN SPECIAL_CHAR_MAP)

\* Variant of ReplaceFirst: every occurrence is replaced (replaceAll).
ReplaceEvery(word, charToReplace, replacement) ==
    [i \in 1..Len(word) |-> IF word[i] = charToReplace THEN replacement ELSE word[i]]

\* Variant of ReplaceFirst: the replacement is put before the first occurrence,
\* which stays.
ReplaceFirstInserting(word, charToReplace, replacement) ==
    IF Includes(word, charToReplace)
    THEN SubSeq(word, 1, IndexOf(word, charToReplace) - 1) \o <<replacement>>
            \o SubSeq(word, IndexOf(word, charToReplace), Len(word))
    ELSE word

\* word.replace(charToReplace, replacement): the first occurrence is replaced.
ReplaceFirst(word, charToReplace, replacement) ==
    IF Includes(word, charToReplace)
    THEN [word EXCEPT ![IndexOf(word, charToReplace)] = replacement]
    ELSE word

\* replaceSpecialChar when getRandomItem draws the k-th eligible character.
ReplaceSpecialChar(word, k) ==
    LET eligibleChars == EligibleChars(word)
    IN  IF eligibleChars = <<>> THEN word
        ELSE ReplaceFirst(word, eligibleChars[k], SPECIAL_CHAR_MAP[eligibleChars[k]])

\* The strings replaceSpecialChar can return, over the draws of getRandomItem.
ReplaceSpecialCharOutcomes(word) ==
    IF EligibleChars(word) = <<>> THEN {word}
    ELSE {ReplaceSpecialChar(word, k) : k \in 1..Len(EligibleChars(word))}

\* Variant of GetRandomDigits: one number below 10^length, without leading zeros.
GetRandomDigitsUnpadded(length) ==
    UNION {[1..n -> DigitChars] : n \in 1..length}

\* The strings getRandomDigits(length) can return.
GetRandomDigits(length) == [1..length -> DigitChars]

Threw(mode, gender, error) ==
    [status |-> "threw", mode |-> mode, gender |-> gender, adj |-> <<>>, noun |-> <<>>,
     password |-> <<>>, error |-> error]

Returned1(mode, gender, adj, noun, password) ==
    [status |-> "returned", mode |-> mode, gender |-> gender, adj |-> adj.word,
     noun |-> noun.word, password |-> password, error |-> "none"]

\* The passwords built from one adjective and one noun.
Passwords(adj, noun, mode) ==
    LET base == adj.word \o noun.word
    IN  IF mode = STRONG
        THEN {replaced \o digits : replaced \in ReplaceSpecialCharOutcomes(base),
                                   digits \in GetRandomDigits(2)}
        ELSE {base}

\* Variant of GenerateForGender: the buckets are not checked for emptiness, and
\* the word drawn from an empty bucket is missing from the password.
GenerateForGenderUnchecked(dict, mode, gender) ==
    LET words == GetFilteredWords(dict)
        missing == <<[word |-> <<>>]>>
        adjectives == GetWordsByMode(words.adjByGender[gender], mode)
        nouns == GetWordsByMode(words.nounsByGender[gender], mode)
        modeAdjectives == IF Len(adjectives) = 0 THEN missing ELSE adjectives
        modeNouns == IF Len(nouns) = 0 THEN missing ELSE nouns
    IN  UNION { {Returned1(mode, gender, modeAdjectives[i], modeNouns[j], pw) :
                    pw \in Passwords(modeAdjectives[i], modeNouns[j], mode)} :
                <<i, j>> \in (1..Len(modeAdjectives)) \X (1..Len(modeNouns)) }

\* Variant of GenerateForGender: the buckets are narrowed by mode first, and the
\* emptiness check is made on the narrowed buckets.
GenerateForGenderNarrowingFirst(dict, mode, gender) ==
    LET words == GetFilteredWords(dict)
        adjectives == GetWordsByMode(words.adjByGender[gender], mode)
        nouns == GetWordsByMode(words.nounsByGender[gender], mode)
    IN  IF Len(adjectives) = 0 \/ Len(nouns) = 0
        THEN {Threw(mode, gender, "No valid words found for gender")}
        ELSE UNION { {Returned1(mode, gender, adjectives[i], nouns[j], pw) :
                         pw \in Passwords(adjectives[i], nouns[j], mode)} :
                     <<i, j>> \in (1..Len(adjectives)) \X (1..Len(nouns)) }

\* generatePassword(mode) once getRandomItem has drawn the gender.
GenerateForGender(dict, mode, gender) ==
    LET words == GetFilteredWords(dict)
        adjectives == words.adjByGender[gender]
        nouns == words.nounsByGender[gender]
        modeAdjectives == GetWordsByMode(adjectives, mode)
        modeNouns == GetWordsByMode(nouns, mode)
    IN  IF Len(adjectives) = 0 \/ Len(nouns) = 0
        THEN {Threw(mode, gender, "No valid words found for gender")}
        ELSE IF Len(modeAdjectives) = 0 \/ Len(modeNouns) = 0
        THEN {Threw(mode, gender, "No valid words found for gender in mode")}
        ELSE UNION { {Returned1(mode, gender, modeAdjectives[i], modeNouns[j], pw) :
                         pw \in Passwords(modeAdjectives[i], modeNouns[j], mode)} :
                     <<i, j>> \in (1..Len(modeAdjectives)) \X (1..Len(modeNouns)) }

\* Variant of GeneratePasswordOutcomes: when the drawn gender has no valid
\* words, the other genders are tried.
GeneratePasswordOutcomesTryingOthers(dict, mode) ==
    UNION { LET own == GenerateForGender(dict, mode, gender)
                others == {o \in UNION {GenerateForGender(dict, mode, g) :
                                           g \in Genders \ {gender}} :
                              o.status = "returned"}
            IN  IF (\E o \in own : o.status = "returned") \/ others = {} THEN own
                ELSE {[o EXCEPT !.gender = gender] : o \in others} :
            gender \in Genders }

\* Every outcome of generatePassword(mode), over all its random draws.
GeneratePasswordOutcomes(dict, mode) ==
    UNION {GenerateForGender(dict, mode, gender) : gender \in Genders}

\* generatePassword(mode) from the await of its first filterWords call on: the
\* error of a rejected gate passes through getFilteredWords and generatePassword.
GenerateOutcomes(mode) ==
    IF pc = "failed" THEN {Threw(mode, <<>>, gateError)}
    ELSE GeneratePasswordOutcomes(dictionary, mode)

GeneratePassword ==
    /\ Idle
    /\ Settled
    /\ \E mode \in {SIMPLE, STRONG} :
         \E outcome \in GenerateOutcomes(mode) :
            generated' = outcome
    /\ batch' = batch
    /\ UNCHANGED <<loaderVars, readerVars>>

(***************************************************************************)
(* Batch generation: generatePasswords(mode, count)                        *)
(***************************************************************************)
\* The condition of the for loop: attempts < maxAttempts && passwords.length < count
\* Variant of BatchLoopRuns: the loop goes on to maxAttempts whatever has been
\* collected.
BatchLoopRunsToMaxAttempts == batch.attempts < batch.count * 3

\* attempts < maxAttempts && passwords.length < count
BatchLoopRuns ==
    batch.attempts < batch.count * 3 /\ Len(batch.passwords) < batch.count

\* The arguments of the batch calls: a Strong password ends in one of a
\* hundred digit pairs, so the Strong counts are kept smaller.
BatchCalls ==
    ({SIMPLE} \X (-1..MaxCount)) \cup ({STRONG} \X (-1..MaxStrongCount))

\* Variant of CallGeneratePasswords: count is not checked.
CallGeneratePasswordsUnchecked ==
    /\ Idle
    /\ pc # "new"
    /\ \E mode \in {SIMPLE, STRONG}, count \in -1..MaxCount :
         /\ <<mode, count>> \in BatchCalls
         /\ batch' = [NoBatch EXCEPT !.status = "running", !.mode = mode,
                                      !.count = count]
    /\ UNCHANGED <<loaderVars, readerVars, generated>>

\* generatePasswords(mode, count) up to its first generatePassword call.
CallGeneratePasswords ==
    /\ Idle
    /\ pc # "new"
    /\ \E mode \in {SIMPLE, STRONG}, count \in -1..MaxCount :
         /\ <<mode, count>> \in BatchCalls
         /\ batch' = IF count < 1
                     THEN [NoBatch EXCEPT !.status = "threw", !.mode = mode,
                                          !.count = count,
                                          !.error = "Password count must be greater than 0"]
                     ELSE [NoBatch EXCEPT !.status = "running", !.mode = mode,
                                          !.count = count]
    /\ UNCHANGED <<loaderVars, readerVars, generated>>

\* Variant of BatchAttempt: a failed attempt ends the batch with its error.
BatchAttemptAborting ==
    /\ batch.status = "running"
    /\ BatchLoopRuns
    /\ Settled
    /\ \E outcome \in GenerateOutcomes(batch.mode) :
         batch' = IF outcome.status = "threw"
                  THEN [batch EXCEPT !.attempts = @ + 1, !.status = "threw",
                                     !.failed = TRUE, !.error = outcome.error]
                  ELSE [batch EXCEPT
                           !.attempts = @ + 1,
                           !.passwords = IF outcome.password \notin Range(@)
                                         THEN Append(@, outcome.password) ELSE @]
    /\ UNCHANGED <<loaderVars, readerVars, generated>>

\* Variant of BatchAttempt: a password is pushed whether or not it was seen.
BatchAttemptKeepingDuplicates ==
    /\ batch.status = "running"
    /\ BatchLoopRuns
    /\ Settled
    /\ \E outcome \in GenerateOutcomes(batch.mode) :
         batch' = [batch EXCEPT
                      !.attempts = @ + 1,
                      !.passwords = IF outcome.status = "returned"
                                    THEN Append(@, outcome.password) ELSE @,
                      !.failed = @ \/ outcome.status = "threw"]
    /\ UNCHANGED <<loaderVars, readerVars, generated>>

\* One iteration of the loop: a generatePassword call; its password is pushed
\* unless usedCombos has it, its error is caught and logged.
BatchAttempt ==
    /\ batch.status = "running"
    /\ BatchLoopRuns
    /\ Settled
    /\ \E outcome \in GenerateOutcomes(batch.mode) :
         batch' = [batch EXCEPT
                      !.attempts = @ + 1,
                      !.passwords = IF outcome.status = "returned"
                                       /\ outcome.password \notin Range(@)
                                    THEN Append(@, outcome.password) ELSE @,
                      !.failed = @ \/ outcome.status = "threw"]
    /\ UNCHANGED <<loaderVars, readerVars, generated>>

\* After the loop: throw when nothing was collected, else return the passwords.
FinishBatch ==
    /\ batch.status = "running"
    /\ ~BatchLoopRuns
    /\ batch' = IF Len(batch.passwords) = 0
                THEN [batch EXCEPT !.status = "threw",
                                   !.error = "Failed to generate any valid passwords"]
                ELSE [batch EXCEPT !.status = "returned"]
    /\ UNCHANGED <<loaderVars, readerVars, generated>>

\* The lexicons the generator runs on: up to MaxRecords records of the pool.
AnalysisLine(lemma, category, attributes) ==
    lemma \o <<" ">> \o category \o <<",">> \o Join(attributes, ",")

RecordPool ==
    << Join(<< <<"t", "o", "t">>,
               AnalysisLine(<<"t", "o", "t">>, ADJECTIVE,
                            <<Masc, Nom, Sing, Pos, Strong>>) >>, NL),
       Join(<< <<"s", "ü", "ß">>,
               AnalysisLine(<<"s", "ü", "ß">>, ADJECTIVE, <<Fem, Nom, Sing, Pos>>) >>, NL),
       Join(<< <<"r", "o", "s", "a">>,
               AnalysisLine(<<"r", "o", "s", "a">>, ADJECTIVE,
                            <<Fem, Nom, Sing, Pos>>) >>, NL),
       Join(<< <<"A", "s", "t">>,
               AnalysisLine(<<"A", "s", "t">>, NOUN, <<Masc, Nom, Sing>>) >>, NL),
       Join(<< <<"Z", "u", "g">>,
               AnalysisLine(<<"Z", "u", "g">>, NOUN, <<Masc, Nom, Sing>>) >>, NL),
       Join(<< <<"S", "e", "e">>,
               AnalysisLine(<<"S", "e", "e">>, NOUN, <<Fem, Nom, Sing>>) >>, NL),
       Join(<< <<"T", "+">>,
               AnalysisLine(<<"T", "+">>, NOUN, <<Fem, Nom, Sing>>) >>, NL) >>

\* The records at the chosen places of the pool, in pool order, a blank line
\* after each.
RECURSIVE LexiconFrom(_, _)
LexiconFrom(chosen, i) ==
    IF i > Len(RecordPool) THEN <<>>
    ELSE (IF i \in chosen THEN RecordPool[i] \o <<NL, NL>> ELSE <<>>)
         \o LexiconFrom(chosen, i + 1)

Lexicons ==
    {LexiconFrom(chosen, 1) :
        chosen \in {c \in SUBSET (1..Len(RecordPool)) : Cardinality(c) <= MaxRecords}}

\* The lexicons batch generation runs on: nouns only; one masculine pair;
\* a masculine and a feminine pair; a feminine pair whose adjective has umlauts.
BatchLexicons ==
    { LexiconFrom({4}, 1), LexiconFrom({1, 4}, 1), LexiconFrom({1, 3, 4, 6}, 1),
      LexiconFrom({2, 6}, 1) }

InitBatch == InitWith(BatchLexicons, {})

NextBatch ==
    \/ ConstructFromText
    \/ CallFilterWordsGenerator
    \/ CallFilterWords
    \/ CallCombineFilters
    \/ CallGetDictionary
    \/ CallWaitForReady
    \/ GeneratePassword
    \/ CallGeneratePasswords
    \/ BatchAttempt
    \/ FinishBatch
    \/ TakeResult

SpecBatch == InitBatch /\ [][NextBatch]_vars

\* Texts in which the surface form T heads two blocks, each with an analysis.
RepeatedHeaderTexts ==
    { Join(<< <<"T">>, <<"t", " ", "V", ",", "m">>, <<"T">>,
              <<"t", " ", "N", "N", ",", "f">> >>, NL) }

\* The same through the stream, followed by another header and a last newline.
RepeatedHeaderStreamTexts ==
    { Join(<< <<"T">>, <<"t", " ", "V", ",", "m">>, <<"T">>,
              <<"t", " ", "N", "N", ",", "f">>, <<"T", "s">>, <<>> >>, NL) }

(***************************************************************************)
(* Batch calls on a dictionary that loads from a stream: the calls are     *)
(* made while it loads, when it is ready and after it failed.              *)
(***************************************************************************)
InitStreamBatch == InitWith({}, RepeatedHeaderStreamTexts)

NextStreamBatch ==
    \/ ConstructFromResponse
    \/ ConstructFromResponseWithoutBody
    \/ ReadChunk
    \/ ReadDone
    \/ ReadError
    \/ CallGeneratePasswords
    \/ BatchAttempt
    \/ FinishBatch
    \/ TakeResult

SpecStreamBatch == InitStreamBatch /\ [][NextStreamBatch]_vars

InitGen == InitWith(Lexicons, {})

NextGen ==
    \/ ConstructFromText
    \/ GeneratePassword
    \/ TakeResult

SpecGen == InitGen /\ [][NextGen]_vars

(***************************************************************************)
(* Lexicons whose words have several analyses, of all three genders and    *)
(* with attributes that keep an entry out of the generator's buckets.      *)
(***************************************************************************)
GenderRecordPool ==
    << Join(<< <<"a", "l", "t">>,
               AnalysisLine(<<"a", "l", "t">>, ADJECTIVE,
                            <<Masc, Nom, Sing, Pos, Strong>>),
               AnalysisLine(<<"a", "l", "t">>, ADJECTIVE,
                            <<Neut, Nom, Sing, Pos, Strong>>),
               AnalysisLine(<<"a", "l", "t">>, ADJECTIVE, <<Fem, Nom, Sing, Pos>>) >>, NL),
       Join(<< <<"g", "u", "t">>,
               AnalysisLine(<<"g", "u", "t">>, ADJECTIVE, <<Masc, Nom, Sing, Pos>>),
               AnalysisLine(<<"g", "u", "t">>, ADJECTIVE,
                            <<Neut, Nom, Sing, Comp, Strong>>),
               AnalysisLine(<<"g", "u", "t">>, ADJECTIVE,
                            <<Fem, Nom, Sing, Pos, Strong>>) >>, NL),
       Join(<< <<"T", "o", "r">>,
               AnalysisLine(<<"T", "o", "r">>, NOUN, <<Neut, Nom, Sing>>),
               AnalysisLine(<<"T", "o", "r">>, NOUN, <<Masc, Nom, Plu>>) >>, NL),
       Join(<< <<"A", "s", "t">>,
               AnalysisLine(<<"A", "s", "t">>, NOUN, <<Masc, Nom, Sing>>),
               AnalysisLine(<<"A", "s", "t">>, NOUN, <<Neut, Gen, Sing>>) >>, NL),
       Join(<< <<"S", "e", "e">>,
               AnalysisLine(<<"S", "e", "e">>, NOUN, <<Fem, Nom, Sing>>),
               AnalysisLine(<<"S", "e", "e">>, NOUN, <<Masc, Nom, Sing>>) >>, NL),
       Join(<< <<"B", "a", "u">>,
               AnalysisLine(<<"B", "a", "u">>, NOUN, <<Masc, Nom, Sing>>) >>, NL) >>

RECURSIVE GenderLexiconFrom(_, _)
GenderLexiconFrom(chosen, i) ==
    IF i > Len(GenderRecordPool) THEN <<>>
    ELSE (IF i \in chosen THEN GenderRecordPool[i] \o <<NL, NL>> ELSE <<>>)
         \o GenderLexiconFrom(chosen, i + 1)

GenderLexicons ==
    {GenderLexiconFrom(chosen, 1) : chosen \in SUBSET (1..Len(GenderRecordPool))}

InitGender == InitWith(GenderLexicons, {})

NextGender ==
    \/ ConstructFromText
    \/ GeneratePassword
    \/ TakeResult

SpecGender == InitGender /\ [][NextGender]_vars

Init == InitWith(Texts \cup RepeatedHeaderTexts, StreamTexts \cup RepeatedHeaderStreamTexts)

Next ==
    \/ ConstructFromText
    \/ ConstructFromResponse
    \/ ConstructFromResponseWithoutBody
    \/ ReadChunk
    \/ ReadDone
    \/ ReadError

Spec == Init /\ [][Next]_vars


\* The stream texts under which read operations interleave with loading.
FilterStreamTexts ==
    { Join(<< <<"T">>, <<"t", " ", "V", ",", "m">>, <<"T", "s">>,
              <<"t", " ", "N", "N", ",", "f">> >>, NL) }

InitFilter ==
    InitWith(Texts \cup RepeatedHeaderTexts, FilterStreamTexts \cup RepeatedHeaderStreamTexts)

NextFilter ==
    \/ ConstructFromText
    \/ ConstructFromResponse
    \/ ConstructFromResponseWithoutBody
    \/ ReadChunk
    \/ ReadDone
    \/ ReadError
    \/ CallFilterWordsGenerator
    \/ CallFilterWords
    \/ CallCombineFilters
    \/ CallGetDictionary
    \/ CallWaitForReady
    \/ GeneratePassword
    \/ TakeResult

SpecFilter == InitFilter /\ [][NextFilter]_vars

(***************************************************************************)
(* A ready index large enough for the eager filter's progress reports: the *)
(* word T followed by n analysis lines, t V,m and t NN,f in turn.          *)
(***************************************************************************)
BigTextLines == <<NL, "t", " ", "V", ",", "m", NL, "t", " ", "N", "N", ",", "f">>

BigText(n) ==
    <<"T">> \o [i \in 1..(Len(BigTextLines) * (n \div 2)) |->
                  BigTextLines[((i - 1) % Len(BigTextLines)) + 1]]
            \o (IF n % 2 = 1 THEN SubSeq(BigTextLines, 1, 6) ELSE <<>>)

\* The lines of BigText(n).
BigLines(n) ==
    << <<"T">> >> \o [i \in 1..n |-> IF i % 2 = 1 THEN SubSeq(BigTextLines, 2, 6)
                                     ELSE SubSeq(BigTextLines, 8, 13)]

\* The index loadDict builds from BigText(n).
BigIndex(n) ==
    << [word |-> <<"T">>,
        entries |-> [i \in 1..n |->
                       [word |-> <<"T">>,
                        analysis |-> IF i % 2 = 1
                                     THEN [lemma |-> <<"t">>, category |-> <<"V">>,
                                           attributes |-> << <<"m">> >>]
                                     ELSE [lemma |-> <<"t">>, category |-> <<"N", "N">>,
                                           attributes |-> << <<"f">> >>]]]] >>

\* One entry short of a batch, a batch, and one entry more than MaxBatches.
BigSizes == {ProgressEvery - 1, ProgressEvery, MaxBatches * ProgressEvery + 1}

\* The state after new GermanMorphDict(BigText(n)) has loaded.
InitProgress ==
    /\ \E n \in BigSizes :
          /\ text = BigText(n)
          /\ dictionary = BigIndex(n)
          /\ totalEntries = n
          /\ handed = BigLines(n)
    /\ path = "string"
    /\ pc = "ready"
    /\ constructed = "returned"
    /\ loadProgress = Report(NoReports, 100, 1)
    /\ readFailure = NoFailure
    /\ gateError = "none"
    /\ pos = 0
    /\ pending = <<>>
    /\ buffer = <<>>
    /\ totalBytes = 0
    /\ loadedBytes = 0
    /\ forwarded = {}
    /\ regexLastIndex = 0
    /\ call = NoCall
    /\ generated = NotGenerated
    /\ batch = NoBatch

NextProgress ==
    \/ CallFilterWordsGenerator
    \/ CallFilterWords
    \/ CallCombineFilters
    \/ CallGetDictionary
    \/ TakeResult

SpecProgress == InitProgress /\ [][NextProgress]_vars

(***************************************************************************)
(* C1  Chunk-boundary invariance: however the text is split into chunks,   *)
(* the index the stream path has built when loading is complete equals the *)
(* index loadDict builds from the same text (same words, same order, same  *)
(* analyses).                                                              *)
(***************************************************************************)
C1_ChunkBoundaryInvariance ==
    (path = "stream" /\ pc = "ready") => dictionary = LoadDict(text).dictionary

(***************************************************************************)
(* C2  When the stream reports done, a record whose header was forwarded   *)
(* to the parser in an earlier processing step and that has at least one   *)
(* valid analysis line is present in the index.                            *)
(***************************************************************************)
C2_InFlightRecordCommitted ==
    (path = "stream" /\ pc = "ready") =>
        \A w \in forwarded : w \in Keys(LoadDict(text).dictionary) => w \in Keys(dictionary)

(***************************************************************************)
(* Reading the source text line by line, for the statements that compare   *)
(* the index with the text                                                 *)
(***************************************************************************)
TextLines(t) == Split(t, NL)

IsHeaderLine(l) == Trim(l) # <<>> /\ ~Includes(Trim(l), ",")

\* The line is an analysis line that yields an analysis (its category is valid).
IsValidAnalysisLine(l) ==
    Trim(l) # <<>> /\ Includes(Trim(l), ",") /\ ParseAnalysis(Trim(l)) # <<>>

LineCategory(l) == ParseAnalysis(Trim(l))[1].category

\* The analysis lines of t whose category is in the set.
AnalysisLinesIn(t, categories) ==
    {i \in 1..Len(TextLines(t)) :
        /\ IsValidAnalysisLine(TextLines(t)[i])
        /\ LineCategory(TextLines(t)[i]) \in categories.values}

\* Line i lies in the block of the header at line h.
Owns(t, h, i) ==
    /\ IsHeaderLine(TextLines(t)[h])
    /\ h < i
    /\ \A j \in (h + 1)..(i - 1) : ~IsHeaderLine(TextLines(t)[j])

HasValidAnalysis(t, h) ==
    \E i \in 1..Len(TextLines(t)) : Owns(t, h, i) /\ IsValidAnalysisLine(TextLines(t)[i])

\* Every valid analysis line follows a header, and no surface form heads two
\* blocks that each hold a valid analysis.
WellFormed(t) ==
    /\ \A i \in 1..Len(TextLines(t)) :
          IsValidAnalysisLine(TextLines(t)[i]) => \E h \in 1..Len(TextLines(t)) : Owns(t, h, i)
    /\ \A h1, h2 \in 1..Len(TextLines(t)) :
          (/\ h1 < h2
           /\ IsHeaderLine(TextLines(t)[h1])
           /\ IsHeaderLine(TextLines(t)[h2])
           /\ Trim(TextLines(t)[h1]) = Trim(TextLines(t)[h2]))
          => ~(HasValidAnalysis(t, h1) /\ HasValidAnalysis(t, h2))

CategoryOnlyFilterReturned ==
    call.op = "filterWords" /\ ~call.regex.present /\ call.categories.present

(***************************************************************************)
(* C3  As stated: for every input text, the number of entries a            *)
(* category-only filterWords returns equals the number of analysis lines   *)
(* of the text whose (valid) category is in the set.                       *)
(***************************************************************************)
C3_CountEqualsAnalysisLines ==
    CategoryOnlyFilterReturned =>
        Len(call.result) = Cardinality(AnalysisLinesIn(text, call.categories))

(***************************************************************************)
(* C3  As amended: the number of entries a category-only filterWords       *)
(* returns never exceeds the number of valid analysis lines of the text    *)
(* whose category is in the set, and equals it when the text was loaded    *)
(* through the string path, every valid analysis line follows a word       *)
(* header, and no surface form heads two blocks with valid analyses.       *)
(***************************************************************************)
C3_CountOfWellFormedText ==
    CategoryOnlyFilterReturned =>
        /\ Len(call.result) <= Cardinality(AnalysisLinesIn(text, call.categories))
        /\ (path = "string" /\ WellFormed(text)) =>
              Len(call.result) = Cardinality(AnalysisLinesIn(text, call.categories))

\* A category-only filter of a well-formed text returned an entry while the
\* text holds a valid analysis line of another category as well.
C3_Witness ==
    /\ CategoryOnlyFilterReturned
    /\ path = "string"
    /\ WellFormed(text)
    /\ Len(call.result) >= 1
    /\ \E i \in 1..Len(TextLines(text)) :
          /\ IsValidAnalysisLine(TextLines(text)[i])
          /\ LineCategory(TextLines(text)[i]) \notin call.categories.values

(***************************************************************************)
(* C4  filterWords(pattern, categories) returns exactly the entries of the *)
(* index whose word satisfies the pattern (every word without a pattern)   *)
(* and whose category is in the set (every category without a set), each   *)
(* once, in word insertion order and then stored analysis order.           *)
(***************************************************************************)
\* The word satisfies the pattern: the pattern's character occurs in it.
Satisfies(word, regex) == ~regex.present \/ Includes(word, regex.source)

RECURSIVE EntriesSatisfying(_, _, _)
EntriesSatisfying(dict, regex, categories) ==
    IF dict = <<>> THEN <<>>
    ELSE (IF Satisfies(Head(dict).word, regex)
          THEN SelectSeq(Head(dict).entries,
                         LAMBDA e : ~categories.present
                                    \/ e.analysis.category \in categories.values)
          ELSE <<>>)
         \o EntriesSatisfying(Tail(dict), regex, categories)

C4_FilterReturnsMatchingEntries ==
    call.op = "filterWords" =>
        call.result = EntriesSatisfying(dictionary, call.regex, call.categories)

(***************************************************************************)
(* C5  Readiness discipline: no read operation returns entries it read     *)
(* from the index before the readiness gate resolved.                      *)
(***************************************************************************)
C5_ReadinessDiscipline ==
    (call.op # "none" /\ Len(call.result) > 0) => call.readAt = "ready"

(***************************************************************************)
(* C6  Progress monotonicity: once loading is complete the percentages the *)
(* loading progress sink received are non-decreasing and the last is 100.  *)
(***************************************************************************)
C6_LoadProgressMonotone ==
    pc = "ready" =>
        /\ loadProgress.reported
        /\ loadProgress.nonDecreasing
        /\ loadProgress.num = 100 * loadProgress.den

(***************************************************************************)
(* Statements about generated passwords                                    *)
(***************************************************************************)
SpecialChars == {"$", "!", "+"}

CountChars(s, chars) == Cardinality({i \in 1..Len(s) : s[i] \in chars})

StrongReturned == generated.status = "returned" /\ generated.mode = STRONG

SimpleReturned == generated.status = "returned" /\ generated.mode = SIMPLE

(***************************************************************************)
(* C7  As stated: every password Strong-mode generation returns contains   *)
(* exactly one character from {$, !, +}.                                   *)
(***************************************************************************)
C7_ExactlyOneSpecial ==
    StrongReturned => CountChars(generated.password, SpecialChars) = 1

(***************************************************************************)
(* C7  As amended: every password Strong-mode generation returns contains  *)
(* exactly one more character from {$, !, +} than its adjective and noun   *)
(* words together contain, so exactly one when the two words contain none. *)
(***************************************************************************)
C7_OneMoreSpecial ==
    StrongReturned =>
        /\ CountChars(generated.password, SpecialChars)
              = CountChars(generated.adj \o generated.noun, SpecialChars) + 1
        /\ CountChars(generated.adj \o generated.noun, SpecialChars) = 0
              => CountChars(generated.password, SpecialChars) = 1

\* A Strong password whose words hold no special character and at least two
\* replaceable letters, one of them twice.
C7_Witness ==
    /\ StrongReturned
    /\ CountChars(generated.adj \o generated.noun, SpecialChars) = 0
    /\ CountChars(generated.adj \o generated.noun, {"t"}) >= 2
    /\ CountChars(generated.password, SpecialChars) = 1

(***************************************************************************)
(* C8  Every password Strong-mode generation returns contains none of the  *)
(* characters Ä ä Ö ö Ü ü ẞ ß Y y Z z, anywhere in the string.             *)
(***************************************************************************)
C8_NoFilteredChars ==
    StrongReturned =>
        \A i \in 1..Len(generated.password) :
            generated.password[i] \notin {"Ä", "ä", "Ö", "ö", "Ü", "ü", "ẞ", "ß",
                                          "Y", "y", "Z", "z"}

\* A Strong password returned for a gender whose adjective or noun bucket
\* holds a word with one of these characters.
C8_Witness ==
    /\ StrongReturned
    /\ LET words == GetFilteredWords(dictionary)
           bucket == words.adjByGender[generated.gender]
                        \o words.nounsByGender[generated.gender]
       IN  \E i \in 1..Len(bucket) :
              \E c \in {"ü", "ß", "Z"} : Includes(bucket[i].word, c)

(***************************************************************************)
(* C9  Every password Strong-mode generation returns ends with two decimal *)
(* digits appended to the base password: its length is the adjective's     *)
(* length plus the noun's length plus two.                                 *)
(***************************************************************************)
C9_TwoDigitsAppended ==
    StrongReturned =>
        LET n == Len(generated.password)
            base == generated.adj \o generated.noun
        IN  /\ n = Len(generated.adj) + Len(generated.noun) + 2
            /\ \A i \in 1..Len(base) :
                  generated.password[i] = base[i] \/ base[i] \in {"S", "s", "I", "i", "T", "t"}
            /\ generated.password[n - 1] \in {"0", "1", "2", "3", "4", "5", "6", "7", "8", "9"}
            /\ generated.password[n] \in {"0", "1", "2", "3", "4", "5", "6", "7", "8", "9"}

\* A Strong password whose two digits differ.
C9_Witness ==
    /\ StrongReturned
    /\ Len(generated.password) >= 2
    /\ generated.password[Len(generated.password) - 1] = "4"
    /\ generated.password[Len(generated.password)] = "2"

(***************************************************************************)
(* C10  Simple mode: the strings a successful generatePassword(SIMPLE) can *)
(* return are exactly the adjective words directly followed by a noun word *)
(* of the same gender's buckets, nothing inserted and nothing changed.     *)
(***************************************************************************)
\* adjective word followed by noun word, over the buckets of each gender
SimplePairs(dict) ==
    LET words == GetFilteredWords(dict)
    IN  UNION { {a.word \o n.word : a \in Range(words.adjByGender[g]),
                                    n \in Range(words.nounsByGender[g])} :
                g \in Genders }

ReturnedPasswords(dict, mode) ==
    {o.password : o \in {x \in GeneratePasswordOutcomes(dict, mode) :
                            x.status = "returned"}}

C10_SimpleModeOutcomes ==
    /\ pc = "ready" => ReturnedPasswords(dictionary, SIMPLE) = SimplePairs(dictionary)
    /\ SimpleReturned =>
          /\ generated.password \in SimplePairs(dictionary)
          /\ generated.password = generated.adj \o generated.noun

\* A Simple password with an umlaut, from a lexicon where two genders have pairs.
C10_Witness ==
    /\ SimpleReturned
    /\ Includes(generated.password, "ü")
    /\ \E other \in SimplePairs(dictionary) : Includes(other, "t")

(***************************************************************************)
(* Statements about batch generation                                       *)
(***************************************************************************)
BatchReturned == batch.status = "returned"

\* The call went through its loop and ended.
BatchEnded == batch.status \in {"returned", "threw"} /\ batch.count >= 1

(***************************************************************************)
(* C11  Batch uniqueness: the passwords a successful generatePasswords     *)
(* call returns are pairwise distinct, and there are at least one and at   *)
(* most count of them.                                                     *)
(***************************************************************************)
C11_BatchUnique ==
    BatchReturned =>
        /\ \A i, j \in 1..Len(batch.passwords) :
              batch.passwords[i] = batch.passwords[j] => i = j
        /\ Len(batch.passwords) >= 1
        /\ Len(batch.passwords) <= batch.count

\* A batch returned two passwords after more than two attempts none of which
\* failed: an attempt gave a password a second time.
C11_Witness ==
    /\ BatchReturned
    /\ Len(batch.passwords) = 2
    /\ batch.attempts > 2
    /\ ~batch.failed

(***************************************************************************)
(* C12  generatePasswords(mode, n) returns exactly n unique passwords      *)
(* whenever the lexicon admits at least n distinct passwords in that mode. *)
(***************************************************************************)
C12_ExactlyCountWhenAdmitted ==
    (BatchEnded /\ Cardinality(ReturnedPasswords(dictionary, batch.mode)) >= batch.count)
        => (BatchReturned /\ Len(batch.passwords) = batch.count)

(***************************************************************************)
(* C13  A failed attempt never aborts a batch: a batch that went into its  *)
(* loop ends only when count passwords are collected or 3 * count attempts *)
(* are made, whatever failed on the way; it fails exactly when no password *)
(* was collected, and then with the "no passwords generated" error.        *)
(***************************************************************************)
C13_BatchFailsOnlyWhenEmpty ==
    /\ BatchEnded =>
          /\ Len(batch.passwords) = batch.count \/ batch.attempts = 3 * batch.count
          /\ batch.status = "threw" <=> Len(batch.passwords) = 0
          /\ batch.status = "threw" =>
                batch.error = "Failed to generate any valid passwords"
    /\ (batch.status = "running" /\ batch.failed) => batch.error = "none"

\* A batch returned a password although an attempt before the last one failed.
C13_Witness ==
    /\ BatchReturned
    /\ batch.failed
    /\ batch.attempts >= 2
    /\ Len(batch.passwords) >= 1

(***************************************************************************)
(* C14  Single-password generation fails with a "no valid words for        *)
(* gender" error whenever the adjective bucket or the noun bucket of the   *)
(* drawn gender is empty, and a returned password is never missing its     *)
(* adjective part or its noun part.                                        *)
(***************************************************************************)
C14_EmptyBucketFails ==
    (pc = "ready" /\ generated.status # "none") =>
        LET words == GetFilteredWords(dictionary)
            adjectives == words.adjByGender[generated.gender]
            nouns == words.nounsByGender[generated.gender]
        IN  /\ (Len(adjectives) = 0 \/ Len(nouns) = 0) =>
                  /\ generated.status = "threw"
                  /\ generated.error = "No valid words found for gender"
            /\ generated.status = "threw" =>
                  generated.error \in {"No valid words found for gender",
                                       "No valid words found for gender in mode"}
            /\ generated.status = "returned" =>
                  /\ \E i \in 1..Len(adjectives) : adjectives[i].word = generated.adj
                  /\ \E j \in 1..Len(nouns) : nouns[j].word = generated.noun
                  /\ generated.adj # <<>>
                  /\ generated.noun # <<>>
                  /\ Len(generated.password) >= Len(generated.adj) + Len(generated.noun)

\* A call failed for a gender that has adjectives but no noun.
C14_Witness ==
    /\ pc = "ready"
    /\ generated.status = "threw"
    /\ generated.error = "No valid words found for gender"
    /\ Len(GetFilteredWords(dictionary).adjByGender[generated.gender]) > 0
    /\ Len(GetFilteredWords(dictionary).nounsByGender[generated.gender]) = 0

(***************************************************************************)
(* C15  Constructing a dictionary from a Response that has no body raises  *)
(* the configuration error at call time: the constructor call throws.      *)
(***************************************************************************)
C15_MissingBodyRaisedAtCall ==
    (path = "bodiless" /\ pc # "new") => constructed = "threw"

(***************************************************************************)
(* C16  As stated: after a failed read the gate is failed and stays so,    *)
(* its error message wraps the message of the underlying cause, and every  *)
(* later waitForReady, filterWords, combineFilters, getDictionary and      *)
(* generatePassword call fails.                                            *)
(***************************************************************************)
AwaitingOps == {"waitForReady", "filterWords", "combineFilters", "getDictionary"}

\* The gate is failed for good and every awaiting operation fails with its error.
FailedGateIsTerminal ==
    /\ readFailure # NoFailure => (pc = "failed" /\ path = "stream")
    /\ pc = "failed" =>
          /\ call.op \in AwaitingOps => (call.error = gateError /\ call.result = <<>>)
          /\ generated.status # "none" =>
                (generated.status = "threw" /\ generated.error = gateError)

C16_FailureWrapsCause ==
    /\ FailedGateIsTerminal
    /\ readFailure # NoFailure =>
          gateError = "Failed to load dictionary: " \o readFailure.message

(***************************************************************************)
(* C16  As amended: after a failed read the gate is failed and stays so;   *)
(* its error message is "Failed to load dictionary: " followed by the      *)
(* cause's message when the cause is an Error and by "Unknown error" when  *)
(* it is any other value; every later waitForReady, filterWords,           *)
(* combineFilters, getDictionary and generatePassword call fails with it.  *)
(***************************************************************************)
C16_FailureWrapsErrorCause ==
    /\ FailedGateIsTerminal
    /\ readFailure # NoFailure =>
          gateError = "Failed to load dictionary: "
                         \o (IF readFailure.isError THEN readFailure.message
                             ELSE "Unknown error")

\* getDictionary failed with the wrapped message of an Error, after records
\* had been committed.
C16_Witness ==
    /\ pc = "failed"
    /\ readFailure.isError
    /\ dictionary # <<>>
    /\ call.op = "getDictionary"
    /\ call.error = "Failed to load dictionary: network error"

(***************************************************************************)
(* C17  No partial success: after a read failure in mid-stream no public   *)
(* operation, the lazy filter included, yields entries of records that     *)
(* were committed before the failure.                                      *)
(***************************************************************************)
C17_NoPartialSuccess ==
    (call.op # "none" /\ call.readAt = "failed") => call.result = <<>>

(***************************************************************************)
(* C18  Index invariant: in every reachable state every key of the index   *)
(* is a non-empty surface form mapped to at least one analysis, and is the *)
(* header of a block of the text that holds a valid analysis line: a       *)
(* header without valid analyses and an analysis line without a header     *)
(* create no entry.                                                        *)
(***************************************************************************)
C18_IndexInvariant ==
    \A i \in 1..Len(dictionary) :
        /\ dictionary[i].word # <<>>
        /\ Len(dictionary[i].entries) >= 1
        /\ \A k \in 1..Len(dictionary[i].entries) :
              dictionary[i].entries[k].word = dictionary[i].word
        /\ \E h \in 1..Len(TextLines(text)) :
              /\ IsHeaderLine(TextLines(text)[h])
              /\ Trim(TextLines(text)[h]) = dictionary[i].word
              /\ HasValidAnalysis(text, h)

\* The index holds a word while the text also has a header without a valid
\* analysis line, which is no key.
C18_Witness ==
    /\ pc = "ready"
    /\ dictionary # <<>>
    /\ \E h \in 1..Len(TextLines(text)) :
          /\ IsHeaderLine(TextLines(text)[h])
          /\ Trim(TextLines(text)[h]) \notin Keys(dictionary)
          /\ \A g \in 1..Len(TextLines(text)) :
                Trim(TextLines(text)[g]) = Trim(TextLines(text)[h])
                    => ~HasValidAnalysis(text, g)

(***************************************************************************)
(* C19  Once the readiness gate has resolved, no operation changes the     *)
(* index or the total-entry counter (and the gate stays resolved).         *)
(***************************************************************************)
C19_IndexImmutableOnceReady ==
    [][pc = "ready" =>
          (dictionary' = dictionary /\ totalEntries' = totalEntries /\ pc' = "ready")]_vars

\* A batch has returned two passwords from an index of four entries.
C19_Witness ==
    /\ pc = "ready"
    /\ batch.status = "returned"
    /\ Len(batch.passwords) = 2
    /\ totalEntries = 4
    /\ Len(GetDictionary(dictionary)) = 4

(***************************************************************************)
(* C20  On a ready index the eager filter returns what the lazy filter     *)
(* yields when consumed to its end (same entries, same order, for every    *)
(* pattern and category set, from the same state of the pattern object),   *)
(* and getDictionary returns what filterWords returns without pattern and  *)
(* categories.                                                             *)
(***************************************************************************)
C20_EagerEqualsLazy ==
    pc = "ready" =>
        /\ \A regex \in Regexes, categories \in CategorySets, lastIndex \in 0..1 :
              FilterWords(dictionary, regex, lastIndex, categories).entries
                 = FilterWordsGenerator(dictionary, regex, lastIndex, categories).entries
        /\ GetDictionary(dictionary)
              = FilterWords(dictionary, NoRegex, 0, NoCategories).entries
        /\ call.op = "getDictionary" =>
              call.result = FilterWordsGenerator(dictionary, NoRegex, 0, NoCategories).entries
        /\ call.op = "filterWords" =>
              call.result = FilterWordsGenerator(dictionary, call.regex, call.lastIndex,
                                                 call.categories).entries

\* getDictionary returned the entries of an index in which a word has two.
C20_Witness ==
    /\ pc = "ready"
    /\ call.op = "getDictionary"
    /\ Len(call.result) >= 2
    /\ \E i \in 1..Len(dictionary) : Len(dictionary[i].entries) >= 2

(***************************************************************************)
(* C22  In the incremental path every line handed to the record parser is  *)
(* a complete line of the input, in order: the text after the last newline *)
(* seen is retained in the buffer, put before the next chunk, and handed   *)
(* on only when its newline arrives or the stream ends.                    *)
(***************************************************************************)
\* The text decoded so far: the lines handed on, each with its newline, and
\* the retained remainder.
SeenSoFar ==
    (IF handed = <<>> THEN <<>> ELSE Join(handed, NL) \o <<NL>>) \o buffer

C22_OnlyCompleteLines ==
    path = "stream" =>
        /\ Len(handed) <= Len(Split(text, NL))
        /\ \A i \in 1..Len(handed) : handed[i] = Split(text, NL)[i]
        /\ pc = "ready" => handed = Split(text, NL)
        /\ pc = "loading" =>
              /\ ~Includes(buffer, NL)
              /\ Len(SeenSoFar) <= Len(text)
              /\ SeenSoFar = SubSeq(text, 1, Len(SeenSoFar))
              /\ Len(Encode(SeenSoFar)) + Len(pending) = pos

\* A chunk ended in the middle of a line: lines have been handed on and the
\* buffer retains the beginning of the next one.
C22_Witness ==
    /\ path = "stream"
    /\ pc = "loading"
    /\ handed # <<>>
    /\ buffer # <<>>
    /\ Len(buffer) < Len(Split(text, NL)[Len(handed) + 1])

(***************************************************************************)
(* Statements about the eager filter's progress sink                       *)
(***************************************************************************)
EagerReturned(op) == call.op = op /\ call.error = "none"

\* The reports before the final one.
IntermediateReports == SubSeq(call.reports, 1, Len(call.reports) - 1)

FinalReport == call.reports[Len(call.reports)]

(***************************************************************************)
(* C21  The alias combineFilters has the semantics of filterWords: for     *)
(* every pattern, category set and progress sink it returns the list, and  *)
(* its sink receives the reports, that filterWords gives from the same     *)
(* state.                                                                  *)
(***************************************************************************)
C21_AliasEqualsFilterWords ==
    (pc = "ready" /\ EagerReturned("combineFilters")) =>
        LET run == FilterWords(dictionary, call.regex, call.lastIndex, call.categories)
        IN  /\ call.result = run.entries
            /\ regexLastIndex = run.lastIndex
            /\ call.reports = IF call.sink THEN FilterProgress(run.entries, totalEntries)
                              ELSE <<>>

\* combineFilters returned with a sink that received two intermediate reports
\* and the final one.
C21_Witness ==
    /\ EagerReturned("combineFilters")
    /\ call.sink
    /\ call.categories.present
    /\ Len(call.reports) = 2
    /\ Len(call.result) >= ProgressEvery

(***************************************************************************)
(* C25  With a progress sink, totalEntries in every report of the eager    *)
(* filter, and processedEntries in the final report, equal the number of   *)
(* entries of the whole index (what the full dump returns).                *)
(***************************************************************************)
C25_ReportsCountWholeIndex ==
    ((EagerReturned("filterWords") \/ EagerReturned("combineFilters")) /\ call.sink) =>
        /\ \A k \in 1..Len(call.reports) :
              call.reports[k].totalEntries = Len(GetDictionary(dictionary))
        /\ FinalReport.processedEntries = Len(GetDictionary(dictionary))

(***************************************************************************)
(* C26  The eager filter reports once per 1000 processed entries, where    *)
(* processed counts the entries scanned in the index and not only those    *)
(* the filter keeps, and one final report with percentage 100 follows.     *)
(***************************************************************************)
C26_ReportPerThousandScanned ==
    (EagerReturned("filterWords") /\ call.sink /\ ~call.regex.present) =>
        LET scanned == Len(GetDictionary(dictionary))
        IN  /\ Len(call.reports) = (scanned \div 1000) + 1
            /\ \A k \in 1..Len(IntermediateReports) :
                  IntermediateReports[k].processedEntries = k * 1000
            /\ FinalReport.num = 100 * FinalReport.den

(***************************************************************************)
(* Statements about the Strong-mode substitution                           *)
(***************************************************************************)
ReplaceableChars == {"S", "s", "I", "i", "T", "t"}

\* The password without the two digits at its end.
WithoutDigits(password) == SubSeq(password, 1, Len(password) - 2)

\* The substituted base passwords generatePassword(STRONG) can return for the
\* words adj and noun.
SubstitutedFor(dict, adj, noun) ==
    {WithoutDigits(o.password) :
        o \in {x \in GeneratePasswordOutcomes(dict, STRONG) :
                  x.status = "returned" /\ x.adj = adj /\ x.noun = noun}}

\* base with one occurrence of a replaceable letter, any of them, replaced by
\* any of $ ! +
AnyOccurrenceAnySpecial(base) ==
    {[base EXCEPT ![i] = c] : i \in {k \in 1..Len(base) : base[k] \in ReplaceableChars},
                              c \in SpecialChars}

\* The adjective and noun words of the pairs Strong mode draws from.
StrongPairs(dict) ==
    {<<o.adj, o.noun>> : o \in {x \in GeneratePasswordOutcomes(dict, STRONG) :
                                  x.status = "returned"}}

(***************************************************************************)
(* C23  For a base password, Strong mode can replace any one occurrence of *)
(* S s I i T t, each occurrence position being a possible outcome, by any  *)
(* of $ ! +, whichever the letter replaced.                                *)
(***************************************************************************)
C23_AnyOccurrenceAnySpecial ==
    pc = "ready" =>
        \A pair \in StrongPairs(dictionary) :
            SubstitutedFor(dictionary, pair[1], pair[2])
                = AnyOccurrenceAnySpecial(pair[1] \o pair[2])

(***************************************************************************)
(* C24  The Strong password without its last two characters differs from   *)
(* the adjective word followed by the noun word in exactly one position;   *)
(* there the base holds one of S s I i T t and the result one of $ ! +.    *)
(***************************************************************************)
C24_SinglePositionChange ==
    StrongReturned =>
        LET base == generated.adj \o generated.noun
            substituted == WithoutDigits(generated.password)
            changed == {i \in 1..Len(base) : substituted[i] # base[i]}
        IN  /\ Len(substituted) = Len(base)
            /\ Cardinality(changed) = 1
            /\ \A i \in changed : /\ base[i] \in ReplaceableChars
                                   /\ substituted[i] \in SpecialChars

\* A Strong password whose base holds several replaceable letters and whose
\* changed position is neither the first nor the last of the base.
C24_Witness ==
    /\ StrongReturned
    /\ LET base == generated.adj \o generated.noun
       IN  /\ CountChars(base, ReplaceableChars) >= 3
           /\ \E i \in 2..(Len(base) - 1) :
                 /\ base[i] = "s"
                 /\ generated.password[i] = "$"

(***************************************************************************)
(* Statements about the blocks of the input text                           *)
(***************************************************************************)
\* The lines at which the word heads a block with a valid analysis line.
CommittableHeaders(t, word) ==
    {h \in 1..Len(TextLines(t)) :
        /\ IsHeaderLine(TextLines(t)[h])
        /\ Trim(TextLines(t)[h]) = word
        /\ HasValidAnalysis(t, h)}

\* The analyses of the valid analysis lines of the block headed at line h.
BlockAnalyses(t, h) ==
    LET lines == TextLines(t)
        owned == SelectSeq([i \in 1..Len(lines) |-> i],
                           LAMBDA i : Owns(t, h, i) /\ IsValidAnalysisLine(lines[i]))
    IN  [k \in 1..Len(owned) |-> ParseAnalysis(Trim(lines[owned[k]]))[1]]

\* The analyses the index holds for its i-th word.
StoredAnalyses(i) ==
    [k \in 1..Len(dictionary[i].entries) |-> dictionary[i].entries[k].analysis]

(***************************************************************************)
(* C27  When a surface form heads more than one block, the index holds for *)
(* it the analyses of one block only, never those of an earlier block      *)
(* followed by those of a later one; when the whole text is parsed in one  *)
(* step (string path) it is the last block that has a valid analysis.      *)
(***************************************************************************)
C27_LastBlockOverwrites ==
    \A i \in 1..Len(dictionary) :
        LET headers == CommittableHeaders(text, dictionary[i].word)
        IN  /\ \E h \in headers : StoredAnalyses(i) = BlockAnalyses(text, h)
            /\ (path = "string" /\ pc = "ready") =>
                  StoredAnalyses(i) = BlockAnalyses(text, SetMax(headers))

\* The word T heads two blocks with different analyses, and the index holds
\* those of the later block.
C27_Witness ==
    /\ pc = "ready"
    /\ \E i \in 1..Len(dictionary) :
          \E h1, h2 \in CommittableHeaders(text, dictionary[i].word) :
             /\ h1 < h2
             /\ BlockAnalyses(text, h1) # BlockAnalyses(text, h2)
             /\ StoredAnalyses(i) = BlockAnalyses(text, h2)

(***************************************************************************)
(* Statements about single lines of the input text                         *)
(***************************************************************************)
\* The text loaded in one step has been parsed.
StringLoaded == path = "string" /\ pc = "ready"

\* The text t without the lines that satisfy Drop.
WithoutLines(t, Drop(_)) ==
    Join(SelectSeq(TextLines(t), LAMBDA l : ~Drop(l)), NL)

\* The line is neither blank nor a word header.
IsAnalysisLine(l) == Trim(l) # <<>> /\ Includes(Trim(l), ",")

\* The number of fields the single space splits the line into.
FieldCount(l) == Len(Split(Trim(l), " "))

NotTwoFields(l) == IsAnalysisLine(l) /\ FieldCount(l) # 2

\* An analysis line with a lemma and a second field whose category is not a
\* WordCategory value.
HasInvalidCategory(l) ==
    /\ IsAnalysisLine(l)
    /\ FieldCount(l) >= 2
    /\ Split(Trim(l), " ")[1] # <<>>
    /\ Split(Trim(l), " ")[2] # <<>>
    /\ Split(Split(Trim(l), " ")[2], ",")[1] \notin WordCategory

IsBlankLine(l) == Trim(l) = <<>>

(***************************************************************************)
(* C28  An analysis line is accepted only when the single space splits it  *)
(* into exactly two fields: the index of a text is the index of the text   *)
(* without its analysis lines of any other number of fields.               *)
(***************************************************************************)
C28_ExactlyTwoFields ==
    StringLoaded => dictionary = LoadDict(WithoutLines(text, NotTwoFields)).dictionary

(***************************************************************************)
(* C29  Every analysis in the index has a category among the WordCategory  *)
(* values; an analysis line with a category outside them is dropped        *)
(* without an error and without effect on the other lines: the index is    *)
(* that of the text without such lines, and the string path ends ready.    *)
(***************************************************************************)
C29_OnlyKnownCategories ==
    /\ \A i \in 1..Len(dictionary) :
          \A k \in 1..Len(dictionary[i].entries) :
             dictionary[i].entries[k].analysis.category \in WordCategory
    /\ (path = "string" /\ pc # "new") => (pc = "ready" /\ gateError = "none")
    /\ StringLoaded =>
          dictionary = LoadDict(WithoutLines(text, HasInvalidCategory)).dictionary

\* A block holds a line with a category outside WordCategory and a valid
\* analysis line, and its word is in the index.
C29_Witness ==
    /\ StringLoaded
    /\ \E h, i, j \in 1..Len(TextLines(text)) :
          /\ Owns(text, h, i) /\ HasInvalidCategory(TextLines(text)[i])
          /\ Owns(text, h, j) /\ IsValidAnalysisLine(TextLines(text)[j])
          /\ i < j
          /\ Trim(TextLines(text)[h]) \in Keys(dictionary)

(***************************************************************************)
(* C30  Blank lines have no effect on parsing: the index of a text is the  *)
(* index of the text without its blank lines, and of the text with one     *)
(* more blank line at any place.                                           *)
(***************************************************************************)
BlankLines == {<<>>, <<" ">>, <<"\t", " ">>}

\* The text t with the line l put in after its first p lines.
WithLineAt(t, p, l) ==
    Join(SubSeq(TextLines(t), 1, p) \o <<l>>
            \o SubSeq(TextLines(t), p + 1, Len(TextLines(t))), NL)

C30_BlankLinesIgnored ==
    StringLoaded =>
        /\ dictionary = LoadDict(WithoutLines(text, IsBlankLine)).dictionary
        /\ \A p \in 0..Len(TextLines(text)), l \in BlankLines :
              dictionary = LoadDict(WithLineAt(text, p, l)).dictionary

\* A blank line lies between a header and its valid analysis line, and the
\* word is in the index.
C30_Witness ==
    /\ StringLoaded
    /\ \E h, b, i \in 1..Len(TextLines(text)) :
          /\ h < b /\ b < i
          /\ IsBlankLine(TextLines(text)[b])
          /\ Owns(text, h, i)
          /\ IsValidAnalysisLine(TextLines(text)[i])
          /\ Trim(TextLines(text)[h]) \in Keys(dictionary)

(***************************************************************************)
(* Statements about the generator's buckets                                *)
(***************************************************************************)
\* The entries of the index, in index order, that satisfy Keep.
EntriesWith(dict, Keep(_)) == SelectSeq(GetDictionary(dict), Keep)

HasAll(entry, attributes) == \A a \in attributes : HasAttribute(entry, a)

\* The NN entries with nom, sing and g.
ExpectedNouns(dict, g) ==
    EntriesWith(dict, LAMBDA e : e.analysis.category = NOUN /\ HasAll(e, {Nom, Sing, g}))

\* The ADJ entries with nom, sing, pos and g, and strong unless g is fem.
ExpectedAdjectives(dict, g) ==
    EntriesWith(dict, LAMBDA e : /\ e.analysis.category = ADJECTIVE
                                 /\ HasAll(e, {Nom, Sing, Pos, g})
                                 /\ g \in {Masc, Neut} => HasAttribute(e, Strong))

WordsOf(entries) == {entries[i].word : i \in 1..Len(entries)}

(***************************************************************************)
(* C31  Gendered pools: for each gender g the noun bucket is exactly the   *)
(* NN entries whose attributes contain nom, sing and g, and the adjective  *)
(* bucket exactly the ADJ entries whose attributes contain nom, sing, pos  *)
(* and g, and strong as well when g is masc or neut; a returned password   *)
(* is built from words of the drawn gender's buckets.                      *)
(***************************************************************************)
C31_GenderedPools ==
    /\ pc = "ready" =>
          \A g \in Genders :
             /\ GetFilteredWords(dictionary).nounsByGender[g] = ExpectedNouns(dictionary, g)
             /\ GetFilteredWords(dictionary).adjByGender[g]
                   = ExpectedAdjectives(dictionary, g)
    /\ generated.status = "returned" =>
          /\ generated.adj \in WordsOf(ExpectedAdjectives(dictionary, generated.gender))
          /\ generated.noun \in WordsOf(ExpectedNouns(dictionary, generated.gender))

\* A feminine password whose adjective has no strong feminine analysis, from a
\* lexicon that has adjectives and nouns of all three genders.
C31_Witness ==
    /\ generated.status = "returned"
    /\ generated.gender = Fem
    /\ generated.adj = <<"a", "l", "t">>
    /\ \A g \in Genders : /\ ExpectedNouns(dictionary, g) # <<>>
                           /\ ExpectedAdjectives(dictionary, g) # <<>>
    /\ Len(ExpectedNouns(dictionary, Masc)) < Len(WordsOfCategory(dictionary, NOUN))

(***************************************************************************)
(* Statements about the drawn gender's buckets                             *)
(***************************************************************************)
\* The entries whose word holds none of the filtered characters and at least
\* one of S s I i T t.
NarrowedForStrong(entries) ==
    SelectSeq(entries,
              LAMBDA e : /\ \A i \in 1..Len(e.word) :
                              e.word[i] \notin STRONG_MODE_FILTERED_CHARS
                         /\ \E i \in 1..Len(e.word) : e.word[i] \in ReplaceableChars)

\* The buckets of the gender the last generatePassword call drew.
DrawnAdjectives == GetFilteredWords(dictionary).adjByGender[generated.gender]

DrawnNouns == GetFilteredWords(dictionary).nounsByGender[generated.gender]

\* A generatePassword(STRONG) call on a ready index has ended.
StrongEnded == pc = "ready" /\ generated.status # "none" /\ generated.mode = STRONG

(***************************************************************************)
(* C32  In Strong mode both buckets of the drawn gender are narrowed to    *)
(* the entries whose word holds none of the filtered characters and one of *)
(* S s I i T t at least. When both base buckets are non-empty and a        *)
(* narrowed bucket is empty the call fails with the "no valid words for    *)
(* gender in mode" error; an empty base bucket gives the "no valid words   *)
(* for gender" error whatever the narrowing would leave.                   *)
(***************************************************************************)
C32_StrongNarrowing ==
    StrongEnded =>
        LET adjectives == NarrowedForStrong(DrawnAdjectives)
            nouns == NarrowedForStrong(DrawnNouns)
        IN  /\ FilterStrongWords(DrawnAdjectives) = adjectives
            /\ FilterStrongWords(DrawnNouns) = nouns
            /\ (DrawnAdjectives = <<>> \/ DrawnNouns = <<>>) =>
                  /\ generated.status = "threw"
                  /\ generated.error = "No valid words found for gender"
            /\ (DrawnAdjectives # <<>> /\ DrawnNouns # <<>>
                   /\ (adjectives = <<>> \/ nouns = <<>>)) =>
                  /\ generated.status = "threw"
                  /\ generated.error = "No valid words found for gender in mode"
            /\ generated.status = "returned" =>
                  /\ generated.adj \in WordsOf(adjectives)
                  /\ generated.noun \in WordsOf(nouns)

\* The call failed in Strong mode for a gender whose base buckets are both
\* non-empty: the only adjective has a filtered character.
C32_Witness ==
    /\ StrongEnded
    /\ generated.error = "No valid words found for gender in mode"
    /\ DrawnAdjectives # <<>>
    /\ NarrowedForStrong(DrawnAdjectives) = <<>>
    /\ NarrowedForStrong(DrawnNouns) # <<>>

(***************************************************************************)
(* C35  A generatePassword call draws one gender and tries no other: it    *)
(* returns if and only if the drawn gender's adjective and noun buckets,   *)
(* after the narrowing of the mode, are both non-empty; it can fail on a   *)
(* lexicon on which another gender would have given a password.            *)
(***************************************************************************)
C35_OneGenderDrawn ==
    (pc = "ready" /\ generated.status # "none") =>
        LET ByMode(entries) == IF generated.mode = STRONG THEN NarrowedForStrong(entries)
                               ELSE entries
        IN  /\ generated.gender \in Genders
            /\ generated.status = "returned"
                  <=> (ByMode(DrawnAdjectives) # <<>> /\ ByMode(DrawnNouns) # <<>>)
            /\ generated.status = "returned" =>
                  /\ generated.adj \in WordsOf(ByMode(DrawnAdjectives))
                  /\ generated.noun \in WordsOf(ByMode(DrawnNouns))

\* The call failed although another gender has an adjective and a noun that
\* the mode admits.
C35_Witness ==
    /\ pc = "ready"
    /\ generated.status = "threw"
    /\ generated.mode = STRONG
    /\ \E g \in Genders \ {generated.gender} :
          /\ NarrowedForStrong(GetFilteredWords(dictionary).adjByGender[g]) # <<>>
          /\ NarrowedForStrong(GetFilteredWords(dictionary).nounsByGender[g]) # <<>>

(***************************************************************************)
(* C33  A batch call makes at most 3 * count generatePassword attempts,    *)
(* each attempt counted once whether it gave a new password, a duplicate   *)
(* or an error, and makes no attempt once count passwords are collected.   *)
(***************************************************************************)
\* The step is an iteration of the loop.
BatchAttempted == batch' # NoBatch /\ batch'.attempts # batch.attempts

C33_AttemptsBounded ==
    [][ /\ batch'.attempts <= IF batch'.count >= 1 THEN 3 * batch'.count ELSE 0
        /\ Len(batch'.passwords) <= batch'.attempts
        /\ batch'.count >= 1 => Len(batch'.passwords) <= batch'.count
        /\ BatchAttempted =>
              /\ batch.status = "running"
              /\ batch'.attempts = batch.attempts + 1
              /\ batch.attempts < 3 * batch.count
              /\ Len(batch.passwords) < batch.count
        /\ (batch' # NoBatch
               /\ (batch'.passwords # batch.passwords \/ batch'.failed # batch.failed)) =>
              BatchAttempted ]_vars

\* A batch ended after 3 * count attempts with fewer than count passwords:
\* duplicates were counted as attempts.
C33_Witness ==
    /\ BatchReturned
    /\ batch.count = 2
    /\ batch.attempts = 3 * batch.count
    /\ Len(batch.passwords) = 1
    /\ ~batch.failed

(***************************************************************************)
(* C36  generatePasswords rejects a count below 1 with the "Password count *)
(* must be greater than 0" error before it makes a generation attempt and  *)
(* before it reads the dictionary: whatever the state of the readiness     *)
(* gate, no attempt is made and the error is not the gate's.               *)
(***************************************************************************)
C36_CountRejectedFirst ==
    batch.status # "none" =>
        /\ batch.count < 1 =>
              /\ batch.status = "threw"
              /\ batch.error = "Password count must be greater than 0"
              /\ batch.attempts = 0
              /\ batch.passwords = <<>>
              /\ ~batch.failed
        /\ batch.count >= 1 => batch.error # "Password count must be greater than 0"

\* A call with a negative count was rejected while the dictionary was loading.
C36_Witness ==
    /\ batch.status = "threw"
    /\ batch.count < 0
    /\ pc = "loading"
    /\ dictionary # <<>>

(***************************************************************************)
(* C34  The lazy filter is restartable: on a ready index, a second         *)
(* iteration of filterWordsGenerator with the same pattern object and the  *)
(* same category set yields the entries the first iteration yielded.       *)
(***************************************************************************)
C34_LazyFilterRestartable ==
    (pc = "ready" /\ call.op = "filterWordsGenerator" /\ call.readAt = "ready") =>
        FilterWordsGenerator(dictionary, call.regex, regexLastIndex,
                             call.categories).entries = call.result

====
